---- MODULE Spec2Model ----
(***************************************************************************)
(* Model of app2.py, a Streamlit script.  Streamlit re-executes the whole  *)
(* script top to bottom on every user interaction of a session: opening    *)
(* the page, changing one sidebar widget, pressing the predict button.     *)
(* One action of the model is one such interaction followed by the         *)
(* complete script run it triggers.                                        *)
(*                                                                         *)
(* Numbers: NLR is held in tenths (0.1 -> 1, 2.5 -> 25, 50.0 -> 500) and   *)
(* probabilities in thousandths (0.5 -> 500), so the comparisons of the    *)
(* script are exact integer comparisons.                                   *)
(***************************************************************************)
EXTENDS Integers, Sequences, FiniteSets, TLC

VARIABLES
    age, degree, t_stage, ln_status, molecular, nlr, \* widget values of the session
    refused,    \* the last widget interaction tried a raw value the widget did not take
    cache,      \* the st.cache_resource entry of load_model (process-wide)
    model,      \* module-level `model` of the last run
    predict,    \* value of st.button in the last run
    X,          \* DataFrame built by the last run (NoFrame when none)
    calls,      \* frames handed to model.predict_proba in the last run
    out,        \* elements the last run emitted to the page
    table,      \* the artifact as a function: the vectors scored so far |-> probability
    loads,      \* executions of the body of load_model since process start
    runs,       \* script runs since process start
    fault,      \* where the try block of the last run raised ("none": nowhere)
    exc,        \* the exception it raised there ("" when none)
    failed,     \* history: some earlier request's classifier call raised
    ref         \* history: a remembered earlier complete prediction

vars == <<age, degree, t_stage, ln_status, molecular, nlr, refused, cache, model,
          predict, X, calls, out, table, loads, runs, fault, exc,
          failed, ref>>

widgets == <<age, degree, t_stage, ln_status, molecular, nlr>>

(***************************************************************************)
(* Bounds of the exploration.                                              *)
(***************************************************************************)
MaxRuns == 4

\* raw codes a user may try to put into a categorical widget
RawCodes == 0..5
\* raw NLR values (tenths) a user may try to type: 0, 0.1, 4.2, 50.0, 51.0
RawNlr == {0, 1, 42, 500, 510}
\* probabilities (thousandths) the artifact may return; 500 is exactly 0.5
ProbGrid == {0, 120, 499, 500, 780, 1000}
\* exceptions that may be raised inside the try block
Causes == {"ValueError", "MemoryError"}
\* outcomes of joblib.load("svm_model.pkl")
LoadOutcomes == {"ok", "FileNotFoundError", "UnpicklingError"}
\* where the try block raises, if it does
Faults == {"none", "predict_proba", "prob_card", "tier_card"}

(***************************************************************************)
(* Sidebar widgets (lines 141-204).                                        *)
(***************************************************************************)
AgeOptions == {1, 2, 3}
DegreeOptions == {1, 2, 3}
TStageOptions == {1, 2, 3, 4}
LnOptions == {0, 1}
MolecularOptions == {1, 2, 3, 4}
NlrMin == 1
NlrMax == 500
NlrDefault == 25

\* st.selectbox / st.radio: the value is always one of `options`; a raw
\* code that is no option cannot be selected and the widget keeps its value.
Selectbox(options, raw, current) ==
    IF raw \in options THEN raw ELSE current

\* NumberInput without its max_value (mutation for C4)
NumberInput_NoMax(raw, current) ==
    IF raw >= NlrMin THEN {raw} ELSE {current, NlrMin}

\* st.number_input with min_value and max_value: the values it can hold
\* after the user typed `raw`.  A raw value outside [min_value, max_value]
\* is refused (value kept) or clamped to the nearer limit, depending on the
\* front end; both are given.
NumberInput(raw, current) ==
    IF raw >= NlrMin /\ raw <= NlrMax
    THEN {raw}
    ELSE {current, IF raw < NlrMin THEN NlrMin ELSE NlrMax}

(***************************************************************************)
(* Page elements.  All have the same fields so that they compare.          *)
(***************************************************************************)
Element(kind, text, guidance, cause) ==
    [kind |-> kind, text |-> text, guidance |-> guidance, cause |-> cause]

\* st.error of load_model
ModelNotFound == Element("model_not_found", <<>>, <<>>, "FileNotFoundError")

\* f"{prob_percent:.1f}%": prob * 100 printed with one decimal, as
\* <<integer part, decimal digit>>
FormatPercent(prob) == <<prob \div 10, prob % 10>>

ProbCard(prob) == Element("prob_card", FormatPercent(prob), <<>>, "")

RiskHighCard ==
    Element("risk_high", <<>>,
            <<"Intensified adjuvant therapy",
              "Closer clinical surveillance",
              "More rigorous follow-up schedules">>, "")

RiskLowCard ==
    Element("risk_low", <<>>,
            <<"favorable prognosis under standard treatment">>, "")

Threshold == 500

\* the threshold taken strictly (mutation for C1)
TierCard_Strict(prob) == IF prob > Threshold THEN RiskHighCard ELSE RiskLowCard

\* the tier falling back to risk-low in the request that follows a failed
\* one, as if the failure had left a flag behind (mutation for C6)
TierCard_AfterFailure(prob) ==
    IF prob >= Threshold /\ fault = "none" THEN RiskHighCard ELSE RiskLowCard

\* guidance graded by the probability (mutation for C8)
TierCard_Graded(prob) ==
    IF prob >= 1000
    THEN Element("risk_high", <<>>,
                 <<"Intensified adjuvant therapy", "Closer clinical surveillance",
                   "More rigorous follow-up schedules",
                   "Multidisciplinary review">>, "")
    ELSE IF prob >= Threshold THEN RiskHighCard ELSE RiskLowCard

\* if prob >= 0.5: risk-high card, else: risk-low card
TierCard(prob) == IF prob >= Threshold THEN RiskHighCard ELSE RiskLowCard

\* the handler dropping the exception (mutation for C3)
PredictionError_NoCause(e) == Element("prediction_error", <<>>, <<>>, "")

\* except Exception as e: st.error(f"Prediction Error: {e}")
PredictionError(e) == Element("prediction_error", <<>>, <<>>, e)

\* an exception that leaves the script: Streamlit prints it and the run ends
Uncaught(e) == Element("uncaught_exception", <<>>, <<>>, e)

(***************************************************************************)
(* load_model under @st.cache_resource (lines 92-100).                     *)
(***************************************************************************)
EmptyCache == [filled |-> FALSE, value |-> "unset", messages |-> <<>>]

\* load_model whose st.error is not part of the cache entry, so that a cache
\* hit shows nothing (mutation for C2)
load_model_NoReplay(outcome) ==
    IF cache.filled
    THEN [raised |-> "", value |-> cache.value, messages |-> <<>>,
          cache |-> cache, ran |-> FALSE]
    ELSE IF outcome = "ok"
    THEN [raised |-> "", value |-> "svm", messages |-> <<>>,
          cache |-> [filled |-> TRUE, value |-> "svm", messages |-> <<>>],
          ran |-> TRUE]
    ELSE IF outcome = "FileNotFoundError"
    THEN [raised |-> "", value |-> "None", messages |-> <<ModelNotFound>>,
          cache |-> [filled |-> TRUE, value |-> "None", messages |-> <<>>],
          ran |-> TRUE]
    ELSE [raised |-> outcome, value |-> "unset", messages |-> <<>>,
          cache |-> cache, ran |-> TRUE]

\* One call of load_model().  On a cache hit the body does not run: the
\* cached value is returned and the elements the body emitted are replayed.
\* On a miss the body runs joblib.load, whose outcome is `outcome`; a return
\* value (None included) is cached with the elements emitted; an exception
\* other than FileNotFoundError leaves the function and nothing is cached.
load_model(outcome) ==
    IF cache.filled
    THEN [raised |-> "", value |-> cache.value, messages |-> cache.messages,
          cache |-> cache, ran |-> FALSE]
    ELSE IF outcome = "ok"
    THEN [raised |-> "", value |-> "svm", messages |-> <<>>,
          cache |-> [filled |-> TRUE, value |-> "svm", messages |-> <<>>],
          ran |-> TRUE]
    ELSE IF outcome = "FileNotFoundError"
    THEN [raised |-> "", value |-> "None", messages |-> <<ModelNotFound>>,
          cache |-> [filled |-> TRUE, value |-> "None",
                     messages |-> <<ModelNotFound>>],
          ran |-> TRUE]
    ELSE [raised |-> outcome, value |-> "unset", messages |-> <<>>,
          cache |-> cache, ran |-> TRUE]

(***************************************************************************)
(* Prediction block (lines 210-268).                                       *)
(***************************************************************************)
Columns ==
    <<"Age", "Degree_of_differentiation", "T_stage", "lymphaden_Status",
      "Molecular_typing", "NLR">>

NoFrame == [columns |-> <<>>, row |-> <<>>]

\* two columns of the row exchanged (mutation for C5)
DataFrame_Swapped(a, d, t, l, m, n) ==
    [columns |-> Columns, row |-> <<a, d, l, t, m, n>>]

\* pd.DataFrame([[age, degree, t_stage, ln_status, molecular, nlr]], columns=[...])
DataFrame(a, d, t, l, m, n) ==
    [columns |-> Columns, row |-> <<a, d, t, l, m, n>>]

\* the guard without the button (mutation for C10)
ShouldPredict_NoButton(btn, mdl) == mdl # "None"

\* `if predict and model`
ShouldPredict(btn, mdl) == btn /\ mdl # "None"

\* The try block: what is emitted when it raises `cause` at `flt`, or runs
\* to its end, the classifier (when it answers) having returned prob.
TryBlock(flt, cause, prob) ==
    IF flt = "predict_proba" THEN <<PredictionError(cause)>>
    ELSE IF flt = "prob_card" THEN <<PredictionError(cause)>>
    ELSE IF flt = "tier_card" THEN <<ProbCard(prob), PredictionError(cause)>>
    ELSE <<ProbCard(prob), TierCard(prob)>>

(***************************************************************************)
(* One run of the script, top to bottom, on the widget values of the next  *)
(* state.  btn: the button was pressed; outcome: what joblib.load does if  *)
(* it is reached; flt, cause: where the try block raises and what; p: the  *)
(* probability the artifact has for a vector it was not asked about yet.   *)
(***************************************************************************)
RunScript(btn, outcome, flt, cause, p) ==
    LET L == load_model(outcome)
        frame == DataFrame(age', degree', t_stage', ln_status', molecular', nlr')
        known == frame.row \in DOMAIN table
        prob == IF known THEN table[frame.row] ELSE p
    IN
    /\ cache' = L.cache
    /\ loads' = loads + (IF L.ran THEN 1 ELSE 0)
    /\ runs' = runs + 1
    /\ IF L.raised # ""
       THEN \* line 100 raised: the script ends there
            /\ model' = "unset"
            /\ predict' = FALSE
            /\ X' = NoFrame
            /\ calls' = <<>>
            /\ fault' = "none"
            /\ exc' = ""
            /\ table' = table
            /\ out' = <<Uncaught(L.raised)>>
       ELSE /\ model' = L.value
            /\ predict' = btn
            /\ IF ShouldPredict(btn, L.value)
               THEN /\ X' = frame
                    /\ calls' = <<frame>>
                    /\ fault' = flt
                    /\ exc' = IF flt = "none" THEN "" ELSE cause
                    /\ table' = IF flt # "predict_proba" /\ ~known
                                THEN [r \in DOMAIN table \cup {frame.row} |->
                                        IF r = frame.row THEN p ELSE table[r]]
                                ELSE table
                    /\ out' = L.messages \o TryBlock(flt, cause, prob)
               ELSE /\ X' = NoFrame
                    /\ calls' = <<>>
                    /\ fault' = "none"
                    /\ exc' = ""
                    /\ table' = table
                    /\ out' = L.messages

\* The last run was a complete prediction: probability card and tier card.
Complete == predict /\ Len(calls) = 1 /\ fault = "none"

NoRef == [row |-> <<>>, out |-> <<>>]

\* History kept for the properties: whether a classifier call of an earlier
\* request raised, and (by choice) the complete prediction of the run that
\* is now being replaced.
History ==
    /\ failed' = (failed \/ fault = "predict_proba")
    /\ ref' \in {ref} \cup (IF Complete THEN {[row |-> X.row, out |-> out]} ELSE {})

\* The widgets and the button exist on the page only if the last run got
\* past line 100.
Rendered == runs > 0 /\ model # "unset"

\* A widget interaction that changed no value triggers no run.
NoRun ==
    UNCHANGED <<cache, model, predict, X, calls, out, table, loads, runs,
                fault, exc, failed, ref>>

\* A rerun caused by a changed widget: the button is not pressed and the
\* cache is filled, so neither joblib.load nor the try block is reached.
Rerun == RunScript(FALSE, "ok", "none", "ValueError", 0) /\ History

(***************************************************************************)
(* Actions: one per user interaction.                                      *)
(***************************************************************************)
Init ==
    /\ age = 1 /\ degree = 1 /\ t_stage = 1 /\ ln_status = 0 /\ molecular = 1
    /\ nlr = NlrDefault
    /\ refused = FALSE
    /\ cache = EmptyCache
    /\ model = "unset"
    /\ predict = FALSE
    /\ X = NoFrame
    /\ calls = <<>>
    /\ out = <<>>
    /\ table = <<>>
    /\ loads = 0
    /\ runs = 0
    /\ fault = "none"
    /\ exc = ""
    /\ failed = FALSE
    /\ ref = NoRef

\* A browser opens (or reloads) the page: a new session with the widgets at
\* their defaults (first option; value=2.5), and a first run of the script.
OpenSession ==
    /\ runs < MaxRuns
    /\ age' = 1 /\ degree' = 1 /\ t_stage' = 1 /\ ln_status' = 0 /\ molecular' = 1
    /\ nlr' = NlrDefault
    /\ refused' = FALSE
    /\ \E outcome \in (IF cache.filled THEN {"ok"} ELSE LoadOutcomes) :
          RunScript(FALSE, outcome, "none", "ValueError", 0)
    /\ History

SetAge ==
    /\ Rendered /\ runs < MaxRuns
    /\ \E raw \in RawCodes :
          /\ age' = Selectbox(AgeOptions, raw, age)
          /\ refused' = (raw \notin AgeOptions)
          /\ UNCHANGED <<degree, t_stage, ln_status, molecular, nlr>>
          /\ IF age' # age THEN Rerun ELSE NoRun

SetDegree ==
    /\ Rendered /\ runs < MaxRuns
    /\ \E raw \in RawCodes :
          /\ degree' = Selectbox(DegreeOptions, raw, degree)
          /\ refused' = (raw \notin DegreeOptions)
          /\ UNCHANGED <<age, t_stage, ln_status, molecular, nlr>>
          /\ IF degree' # degree THEN Rerun ELSE NoRun

SetTStage ==
    /\ Rendered /\ runs < MaxRuns
    /\ \E raw \in RawCodes :
          /\ t_stage' = Selectbox(TStageOptions, raw, t_stage)
          /\ refused' = (raw \notin TStageOptions)
          /\ UNCHANGED <<age, degree, ln_status, molecular, nlr>>
          /\ IF t_stage' # t_stage THEN Rerun ELSE NoRun

SetLnStatus ==
    /\ Rendered /\ runs < MaxRuns
    /\ \E raw \in RawCodes :
          /\ ln_status' = Selectbox(LnOptions, raw, ln_status)
          /\ refused' = (raw \notin LnOptions)
          /\ UNCHANGED <<age, degree, t_stage, molecular, nlr>>
          /\ IF ln_status' # ln_status THEN Rerun ELSE NoRun

SetMolecular ==
    /\ Rendered /\ runs < MaxRuns
    /\ \E raw \in RawCodes :
          /\ molecular' = Selectbox(MolecularOptions, raw, molecular)
          /\ refused' = (raw \notin MolecularOptions)
          /\ UNCHANGED <<age, degree, t_stage, ln_status, nlr>>
          /\ IF molecular' # molecular THEN Rerun ELSE NoRun

SetNlr ==
    /\ Rendered /\ runs < MaxRuns
    /\ \E raw \in RawNlr :
          /\ nlr' \in NumberInput(raw, nlr)
          /\ refused' = (raw < NlrMin \/ raw > NlrMax)
          /\ UNCHANGED <<age, degree, t_stage, ln_status, molecular>>
          /\ IF nlr' # nlr THEN Rerun ELSE NoRun

\* The predict button is pressed: a run in which st.button returns True.
ClickPredict ==
    /\ Rendered /\ runs < MaxRuns
    /\ UNCHANGED widgets
    /\ UNCHANGED refused
    /\ \E flt \in (IF ShouldPredict(TRUE, cache.value) THEN Faults ELSE {"none"}) :
       \E cause \in (IF flt = "none" THEN {"ValueError"} ELSE Causes) :
       \E p \in (IF flt = "predict_proba" \/ ~ShouldPredict(TRUE, cache.value)
                      \/ widgets \in DOMAIN table
                   THEN {0} ELSE ProbGrid) :
          RunScript(TRUE, "ok", flt, cause, p)
    /\ History

Next ==
    \/ OpenSession
    \/ SetAge
    \/ SetDegree
    \/ SetTStage
    \/ SetLnStatus
    \/ SetMolecular
    \/ SetNlr
    \/ ClickPredict

Spec == Init /\ [][Next]_vars

(***************************************************************************)
(* Properties.  Every state describes the last script run.                 *)
(***************************************************************************)
Has(kind) == \E i \in 1..Len(out) : out[i].kind = kind

Count(kind) == Cardinality({i \in 1..Len(out) : out[i].kind = kind})

ProbShown == Has("prob_card")

TierShown == Has("risk_high") \/ Has("risk_low")

Tiers == Count("risk_high") + Count("risk_low")

\* the probability the classifier returned in the last run
Returned == table[X.row]

\* C1: in every complete prediction with classifier probability p the page
\* shows the risk-high card if p >= 0.5 and the risk-low card otherwise, and
\* exactly one of the two; p = 0.5 exactly shows the risk-high card.
C1_Threshold ==
    Complete =>
        /\ Tiers = 1
        /\ Has("risk_high") <=> (Returned >= 500)
        /\ Has("risk_low") <=> (Returned < 500)

\* a complete prediction whose probability is exactly 0.5
C1_Witness == Complete /\ Returned = 500 /\ Has("risk_high")

\* C2: when load_model returned None, every run in which the button is
\* pressed shows the model-not-found error and produces neither a
\* probability nor a tier, and the classifier is not called.
C2_MissingArtifact ==
    (predict /\ model = "None") =>
        /\ Has("model_not_found")
        /\ ~ProbShown
        /\ ~TierShown
        /\ calls = <<>>

\* the button pressed in a later run than the one that failed to load
C2_Witness == predict /\ model = "None" /\ runs >= 3

\* C3: when the classifier call raises, the run shows a prediction error
\* carrying the exception raised, no probability and no tier; the script
\* still ran to its end, so the page stays usable; and a later request in
\* which nothing raises shows the probability the classifier returned and
\* its tier, whatever failed before.
C3_ScoringError ==
    /\ fault = "predict_proba" =>
          /\ \E i \in 1..Len(out) :
                out[i].kind = "prediction_error" /\ out[i].cause = exc
          /\ exc \in Causes
          /\ ~ProbShown
          /\ ~TierShown
          /\ ~Has("uncaught_exception")
          /\ Rendered
    /\ (failed /\ predict /\ model = "svm" /\ fault = "none") =>
          /\ \E i \in 1..Len(out) :
                out[i].kind = "prob_card"
                /\ out[i].text = <<Returned \div 10, Returned % 10>>
          /\ Tiers = 1
          /\ ~Has("prediction_error")

\* a complete prediction after a request whose classifier call raised
C3_Witness == failed /\ Complete

\* the six declared domains, NLR over the closed interval [0.1, 50.0]
InDomain(row) ==
    /\ Len(row) = 6
    /\ row[1] \in {1, 2, 3}
    /\ row[2] \in {1, 2, 3}
    /\ row[3] \in {1, 2, 3, 4}
    /\ row[4] \in {0, 1}
    /\ row[5] \in {1, 2, 3, 4}
    /\ row[6] >= 1 /\ row[6] <= 500

C5_FeatureOrder ==
    \A i \in 1..Len(calls) :
        /\ calls[i].columns = <<"Age", "Degree_of_differentiation", "T_stage",
                                "lymphaden_Status", "Molecular_typing", "NLR">>
        /\ Len(calls[i].row) = 6
        /\ calls[i].row[1] = age
        /\ calls[i].row[2] = degree
        /\ calls[i].row[3] = t_stage
        /\ calls[i].row[4] = ln_status
        /\ calls[i].row[5] = molecular
        /\ calls[i].row[6] = nlr

\* the classifier called after two widgets were moved off their defaults
C5_Witness ==
    /\ Len(calls) = 1
    /\ age = 2 /\ nlr = 42

\* C6: two complete predictions on the same six values show the same
\* elements (probability, tier, guidance), whatever happened in between.
C6_Determinism ==
    (Complete /\ ref # NoRef /\ ref.row = X.row) => ref.out = out

\* the same vector scored again after a request whose classifier call raised
C6_Witness == Complete /\ ref # NoRef /\ ref.row = X.row /\ failed

\* C7 as claimed: the body of load_model runs at most once in the life of
\* the process.
C7_LoadAtMostOnce == loads <= 1

\* C8 as claimed: a risk-high card carries the four recommendations
\* (intensified therapy, closer surveillance, stricter follow-up,
\* multidisciplinary review), a risk-low card the one reassurance.
C8_Original ==
    \A i \in 1..Len(out) :
        /\ out[i].kind = "risk_high" => Len(out[i].guidance) = 4
        /\ out[i].kind = "risk_low" => Len(out[i].guidance) = 1

\* C8 as amended: a risk-high card carries the same three recommendations
\* (intensified adjuvant therapy, closer clinical surveillance, more
\* rigorous follow-up schedules), a risk-low card the same one reassurance;
\* two complete predictions of the same tier carry the same guidance,
\* whatever their inputs and probabilities.
C8_Amended ==
    /\ \A i \in 1..Len(out) :
          /\ out[i].kind = "risk_high" =>
                out[i].guidance = <<"Intensified adjuvant therapy",
                                    "Closer clinical surveillance",
                                    "More rigorous follow-up schedules">>
          /\ out[i].kind = "risk_low" =>
                out[i].guidance =
                    <<"favorable prognosis under standard treatment">>
    /\ (Complete /\ ref # NoRef) =>
          \A i \in 1..Len(out), j \in 1..Len(ref.out) :
              (out[i].kind = ref.out[j].kind /\ out[i].kind \in {"risk_high", "risk_low"})
                  => out[i].guidance = ref.out[j].guidance

\* two risk-high predictions on different inputs with different probabilities
C8_Witness ==
    /\ Complete /\ ref # NoRef /\ ref.row # X.row
    /\ Has("risk_high")
    /\ \E j \in 1..Len(ref.out) : ref.out[j].kind = "risk_high"
    /\ \E j \in 1..Len(ref.out) :
          ref.out[j].kind = "prob_card"
          /\ ref.out[j].text # <<Returned \div 10, Returned % 10>>

\* C9 as claimed: no run shows both a failure message and a probability,
\* and a probability is shown only together with exactly one tier card.
C9_AllOrNothing ==
    /\ ~(ProbShown /\ (Has("prediction_error") \/ Has("model_not_found")
                       \/ Has("uncaught_exception")))
    /\ ProbShown => Tiers = 1

\* C10: a run calls the classifier at most once, and only if the button was
\* pressed in that run and an artifact is loaded; a run in which the button
\* was not pressed calls nothing and shows neither a probability, a tier
\* nor a prediction error.
C10_ButtonGuard ==
    /\ Len(calls) <= 1
    /\ Len(calls) = 1 => (predict /\ model = "svm")
    /\ ~predict =>
          /\ calls = <<>>
          /\ ~ProbShown
          /\ ~TierShown
          /\ ~Has("prediction_error")

\* a rerun caused by a widget change, the artifact being loaded
C10_Witness == ~predict /\ model = "svm" /\ runs >= 2 /\ age = 3

====
